---------------------------- MODULE Spec2Model ----------------------------
(***************************************************************************)
(* A model of the reddit-topic-summarizer back end (src/bertopic_api.py,   *)
(* src/openai_representation.py): the text normalizer (clean_comments and  *)
(* its helpers) and the /analyze request pipeline (analyze_reddit_post and *)
(* its streaming generator generate_analysis).                             *)
(*                                                                         *)
(* Python strings are sequences of one-character strings.  A raw JSON      *)
(* value is a record [type, val]: type is "str", "int" or "none" and val   *)
(* is the text of str(value).                                              *)
(***************************************************************************)
EXTENDS Integers, Sequences, FiniteSets, TLC

(***************************************************************************)
(* Program constants.                                                      *)
(***************************************************************************)
MIN_LENGTH == 12
MAX_LENGTH == 3000

(***************************************************************************)
(* Bounds of the model.                                                    *)
(***************************************************************************)
\* longest list of raw values handed to clean_comments on its own
MaxDocs == 3
\* longest comments list of a request
MaxComments == 2
\* largest topic id the clusterer reports (the smallest is the outlier id -1)
MaxTopic == 1

Min(a, b) == IF a < b THEN a ELSE b

\* s repeated to exactly n characters (s non-empty)
Rep(s, n) == [k \in 1..n |-> s[((k - 1) % Len(s)) + 1]]

(***************************************************************************)
(* Characters.  The class [\x00-\x1F\x7F] of normalize_text is represented *)
(* by tab and newline; str.strip() removes those and the space.            *)
(***************************************************************************)
ControlChars == {"\t", "\n"}
Whitespace == {" "} \cup ControlChars

StrVal(s) == [type |-> "str", val |-> s]
NoneVal == [type |-> "none", val |-> <<"N", "o", "n", "e">>]
IntVal(digits) == [type |-> "int", val |-> digits]

\* Python truthiness of a raw value (`not c`)
Truthy(c) ==
    CASE c.type = "none" -> FALSE
      [] c.type = "int"  -> c.val # <<"0">>
      [] OTHER           -> c.val # <<>>

\* str.strip()
RECURSIVE lstrip(_)
lstrip(s) ==
    IF s = <<>> THEN s
    ELSE IF Head(s) \in Whitespace THEN lstrip(Tail(s)) ELSE s

RECURSIVE rstrip(_)
rstrip(s) ==
    IF s = <<>> THEN s
    ELSE IF s[Len(s)] \in Whitespace THEN rstrip(SubSeq(s, 1, Len(s) - 1)) ELSE s

strip(s) == rstrip(lstrip(s))

\* re.sub(r"[\x00-\x1F\x7F]", " ", text)
re_sub_control(s) == [k \in 1..Len(s) |-> IF s[k] \in ControlChars THEN " " ELSE s[k]]

normalize_text(text) ==
    IF text.type # "str" THEN <<>>
    ELSE strip(re_sub_control(text.val))

pad_short_text(text) ==
    IF Len(text) >= MIN_LENGTH THEN text
    ELSE IF Len(text) = 0 THEN <<>>
    ELSE LET needed == MIN_LENGTH - Len(text)
         IN  text \o <<" ">> \o SubSeq(text, 1, Min(needed, Len(text)))

truncate_long_text(text) ==
    IF Len(text) <= MAX_LENGTH THEN text
    ELSE SubSeq(text, 1, MAX_LENGTH)

\* str(n) for the small n a placeholder is numbered with
Digits == <<"0", "1", "2", "3", "4", "5", "6", "7", "8", "9">>
RECURSIVE py_str_int(_)
py_str_int(n) == IF n < 10 THEN <<Digits[n + 1]>>
                 ELSE py_str_int(n \div 10) \o <<Digits[(n % 10) + 1]>>

\* f"placeholder document {len(cleaned)}"
Placeholder(n) ==
    <<"p", "l", "a", "c", "e", "h", "o", "l", "d", "e", "r", " ",
      "d", "o", "c", "u", "m", "e", "n", "t", " ">> \o py_str_int(n)

\* `str(c) if not isinstance(c, str) else c`
py_str(c) == StrVal(c.val)

\* One iteration of the loop of clean_comments over comment c: the documents
\* it appends to `cleaned` (none when the comment is skipped).
NormalizeDoc(text) == truncate_long_text(pad_short_text(text))

CleanOne(c) ==
    IF ~Truthy(c) THEN <<>>
    ELSE LET text == normalize_text(py_str(c))
         IN  IF strip(text) = <<>> THEN <<>>
             ELSE <<NormalizeDoc(text)>>

\* the test of `if len(cleaned) < 3` / `while len(cleaned) < 3`
NeedsPlaceholder_Two(cleaned_) == Len(cleaned_) < 2
NeedsPlaceholder(cleaned_) == Len(cleaned_) < 3

RECURSIVE CleanLoop(_)
CleanLoop(cs) ==
    IF cs = <<>> THEN <<>> ELSE CleanOne(Head(cs)) \o CleanLoop(Tail(cs))

RECURSIVE AddPlaceholders(_)
AddPlaceholders(cl) ==
    IF NeedsPlaceholder(cl) THEN AddPlaceholders(Append(cl, Placeholder(Len(cl))))
    ELSE cl

\* clean_comments as a function of its argument
clean_comments(cs) == AddPlaceholders(CleanLoop(cs))


(***************************************************************************)
(* Inputs of the normalizer.                                               *)
(***************************************************************************)
RawSmall ==
    { NoneVal, StrVal(<<>>), StrVal(<<" ">>), StrVal(<<"\t">>), StrVal(<<"a">>),
      IntVal(<<"0">>), IntVal(<<"7">>) }

RawDocs ==
    { StrVal(Rep(<<"a", "b">>, n)) :
          n \in {2, 5, 6, MIN_LENGTH - 1, MIN_LENGTH, MIN_LENGTH + 1} }
    \cup { StrVal(<<"a", "b", "c", "d", " ", "f", "g">>),
           StrVal(<<" ", "a", "\t", "b", "\n">>),
           StrVal(Rep(<<"a">>, MAX_LENGTH)),
           StrVal(Rep(<<"a">>, MAX_LENGTH + 1)),
           StrVal(Rep(<<"a">>, MAX_LENGTH - 1) \o <<" ", "b">>) }

CleanInputs ==
    UNION { [1..n -> RawSmall] : n \in 0..MaxDocs }
    \cup { <<d>> : d \in RawDocs }
    \cup { <<s, d>> : s \in RawSmall, d \in RawDocs }

(***************************************************************************)
(* State.                                                                  *)
(***************************************************************************)
VARIABLES
    \* --- a stand-alone call of clean_comments
    cc_pc,        \* position in a stand-alone call of clean_comments
    cc_comments,  \* its argument `comments`
    cc_i,         \* the index of its loop
    cc_cleaned,   \* its local `cleaned`, and its result once returned
    cc_again      \* the documents of the result, normalized a second time

cc_vars == <<cc_pc, cc_comments, cc_i, cc_cleaned, cc_again>>

(***************************************************************************)
(* The /analyze pipeline.                                                  *)
(*                                                                         *)
(* Requests are handled by threads of one process.  Every per-request      *)
(* variable is a function of the request; openai_module_api_key,           *)
(* model_cache and embedder_loads belong to the process.                   *)
(***************************************************************************)
Requests == {1, 2}

\* Python's None among strings
PyNone == "<None>"

TopicIds == -1..MaxTopic

\* truthiness of the credential (`if openai_api_key:`, `if not openai_api_key:`)
key_truthy_NotNone(k) == k # PyNone
key_truthy(k) == k # PyNone /\ k # ""

\* `not comments` of analyze_reddit_post, on the list data.get('comments', [])
no_comments_Never(cs) == FALSE
no_comments(cs) == cs = <<>>

\* `if topic_id == -1` of the loop over topic_info
is_outlier_Never(topic_id) == FALSE
is_outlier(topic_id) == topic_id = -1

\* strategy names
NAME_NONE == "None"
NAME_OPENAI == "OpenAI"
NAME_HF == "Hugging Face (KeyBERT)"
NAME_BASIC == "Basic BERTopic (no enhancement)"

\* stages whose exception reaches the except clause of generate_analysis
ModelingStages == {"create", "encode", "fit", "stats"}
RemoteStages == {"remote:clean", "remote:copy", "remote:update"}
LocalStages == {"local:copy", "local:update"}

(***************************************************************************)
(* Request bodies.                                                         *)
(***************************************************************************)
PipeValues == { StrVal(<<"a", "b">>), StrVal(<<" ">>) }
CommentLists == UNION { [1..n -> PipeValues] : n \in 0..MaxComments }
Keys == {PyNone, "", "sk-A", "sk-B"}
Titles == {PyNone, "Title"}

\* request.get_json(): nothing / an empty object, a JSON value that is no
\* object, or an object; `given` tells whether "comments" is a list, null or
\* missing.
Bodies ==
    { [kind |-> k, given |-> "missing", comments |-> <<>>,
       openai_api_key |-> PyNone, post_title |-> PyNone] : k \in {"empty", "nondict"} }
    \cup
    { b \in [kind : {"dict"}, given : {"list"}, comments : CommentLists,
              openai_api_key : Keys, post_title : Titles] :
          \* the title is read by the summary prompt alone, which needs a key
          b.post_title = PyNone \/ b.openai_api_key \notin {PyNone, ""} }
    \cup
    [kind : {"dict"}, given : {"missing", "null"}, comments : {<<>>},
     openai_api_key : Keys, post_title : {PyNone}]

\* a BERTopic instance: its topics_ (one topic id per document), the
\* representation its topics carry and the documents it was last given
NoModel == [topics_ |-> <<>>, representation |-> "unfitted", docs |-> <<>>]

VARIABLES
    \* --- per request
    pc,              \* position of the handler / of the generator
    request_json,    \* the JSON body the request carries
    response,        \* the Response object returned by analyze_reddit_post
    events,          \* the blocks the generator has yielded, in order
    comments,        \* closure variable `comments`
    openai_api_key,  \* closure variable `openai_api_key`
    post_title,      \* closure variable `post_title`
    topic_model,     \* generate_analysis's `topic_model`
    topics,          \* generate_analysis's `topics` (result of fit_transform)
    model_used,      \* generate_analysis's `model_used`
    enh_comments,    \* the Enhancer's parameter `comments` (rebound on re-cleaning)
    updated_model,   \* the Enhancer's `updated_model` (the deep copy of a tier)
    topics_list,     \* generate_analysis's `topics_list`
    summary,         \* generate_analysis's `summary`
    attempted,       \* history: the stages entered, in order
    failed,          \* history: the stages that raised
    \* --- per process
    openai_module_api_key,  \* openai.api_key
    remote_calls,           \* history: the remote completions made, with the key used
    model_cache,            \* the dict model_cache
    embedder_loads          \* history: how many SentenceTransformer loads happened

req_vars == <<pc, request_json, response, events, comments, openai_api_key, post_title,
              topic_model, topics, model_used, enh_comments, updated_model,
              topics_list, summary, attempted, failed>>
proc_vars == <<openai_module_api_key, remote_calls, model_cache, embedder_loads>>
vars == <<cc_vars, req_vars, proc_vars>>

NoResponse == [http |-> 0, status |-> "none", error |-> ""]
NoBody == [kind |-> "none", given |-> "missing", comments |-> <<>>,
           openai_api_key |-> PyNone, post_title |-> PyNone]

P_Init ==
    /\ pc = [r \in Requests |-> "idle"]
    /\ request_json = [r \in Requests |-> NoBody]
    /\ response = [r \in Requests |-> NoResponse]
    /\ events = [r \in Requests |-> <<>>]
    /\ comments = [r \in Requests |-> <<>>]
    /\ openai_api_key = [r \in Requests |-> PyNone]
    /\ post_title = [r \in Requests |-> PyNone]
    /\ topic_model = [r \in Requests |-> NoModel]
    /\ topics = [r \in Requests |-> <<>>]
    /\ model_used = [r \in Requests |-> PyNone]
    /\ enh_comments = [r \in Requests |-> <<>>]
    /\ updated_model = [r \in Requests |-> NoModel]
    /\ topics_list = [r \in Requests |-> <<>>]
    /\ summary = [r \in Requests |-> PyNone]
    /\ attempted = [r \in Requests |-> <<>>]
    /\ failed = [r \in Requests |-> {}]
    /\ openai_module_api_key = PyNone
    /\ remote_calls = {}
    /\ model_cache = [embedding |-> PyNone, summarizer |-> PyNone]
    /\ embedder_loads = 0

\* the normalizer's frame when no stand-alone call is running
CC_Off ==
    /\ cc_pc = "off"
    /\ cc_comments = <<>>
    /\ cc_i = 1
    /\ cc_cleaned = <<>>
    /\ cc_again = <<>>

(***************************************************************************)
(* Events.                                                                 *)
(***************************************************************************)
\* send_progress_update(message, progress)
send_progress_update(message, progress) ==
    [status |-> "progress", message |-> message, progress |-> progress]

ErrorEvent(stage) ==
    [status |-> "error", error |-> stage, traceback |-> "Traceback"]

IsTerminal(ev) == ev.status \in {"complete", "error"}

\* building blocks of the actions
Goto(r, l) == pc' = [pc EXCEPT ![r] = l]
Yield(r, ev) == events' = [events EXCEPT ![r] = Append(@, ev)]
Enter(r, stage) == attempted' = [attempted EXCEPT ![r] = Append(@, stage)]
Fail(r, stage) == failed' = [failed EXCEPT ![r] = @ \cup {stage}]

\* `except Exception as e:` of generate_analysis: the error block is the
\* last thing the generator yields
Raise_Escapes(r, stage) ==
    /\ Goto(r, "done")
    /\ Fail(r, stage)
    /\ UNCHANGED events
Raise(r, stage) ==
    /\ Yield(r, ErrorEvent(stage))
    /\ Goto(r, "done")
    /\ Fail(r, stage)

closure_vars == <<request_json, response, comments, openai_api_key, post_title>>
local_vars == <<topic_model, topics, model_used, enh_comments, updated_model,
                topics_list, summary>>

(***************************************************************************)
(* analyze_reddit_post: parsing and validation, outside the generator.     *)
(***************************************************************************)
ErrorResponse(http, error) == [http |-> http, status |-> "error", error |-> error]
StreamResponse == [http |-> 200, status |-> "stream", error |-> ""]

analyze_reddit_post(r) ==
    /\ pc[r] = "idle"
    /\ \E body \in Bodies :
         LET cs == IF body.given = "list" THEN body.comments ELSE <<>>
             rejected ==
                 CASE body.kind = "empty"   -> ErrorResponse(400, "No JSON data received")
                   [] body.kind = "nondict" -> ErrorResponse(500, "AttributeError")
                   [] OTHER                 -> ErrorResponse(400, "No comments to analyze")
         IN  /\ request_json' = [request_json EXCEPT ![r] = body]
             /\ IF body.kind # "dict" \/ no_comments(cs)
                THEN /\ response' = [response EXCEPT ![r] = rejected]
                     /\ Goto(r, "responded")
                     /\ UNCHANGED <<comments, openai_api_key, post_title>>
                ELSE /\ comments' = [comments EXCEPT ![r] = cs]
                     /\ openai_api_key' = [openai_api_key EXCEPT ![r] = body.openai_api_key]
                     /\ post_title' = [post_title EXCEPT ![r] =
                            IF body.post_title = PyNone THEN "Reddit Post"
                            ELSE body.post_title]
                     /\ response' = [response EXCEPT ![r] = StreamResponse]
                     /\ Goto(r, "start")
    /\ UNCHANGED <<events, local_vars, attempted, failed, proc_vars, cc_vars>>

(***************************************************************************)
(* generate_analysis: the modeling stages.                                 *)
(***************************************************************************)
\* the generator is started: yield 'Loading models...'
GenStart(r) ==
    /\ pc[r] = "start"
    /\ Yield(r, send_progress_update("Loading models...", 10))
    /\ Goto(r, "create")
    /\ UNCHANGED <<closure_vars, local_vars, attempted, failed, proc_vars, cc_vars>>

\* create_bertopic_model(openai_api_key), then yield 'Embedding comments...'
CreateModel(r) ==
    /\ pc[r] = "create"
    /\ Enter(r, "create")
    /\ \E ok \in BOOLEAN :
         IF ok
         THEN /\ embedder_loads' = embedder_loads + 1
              /\ topic_model' = [topic_model EXCEPT ![r] = NoModel]
              /\ Yield(r, send_progress_update("Embedding comments...", 30))
              /\ Goto(r, "encode")
              /\ UNCHANGED failed
         ELSE /\ Raise(r, "create")
              /\ UNCHANGED <<embedder_loads, topic_model>>
    /\ UNCHANGED <<closure_vars, topics, model_used, enh_comments, updated_model,
                   topics_list, summary, openai_module_api_key, remote_calls,
                   model_cache, cc_vars>>

\* embedding_model.encode(comments), then yield 'Analyzing topics...'
Encode(r) ==
    /\ pc[r] = "encode"
    /\ Enter(r, "encode")
    /\ \E ok \in BOOLEAN :
         IF ok
         THEN /\ Yield(r, send_progress_update("Analyzing topics...", 70))
              /\ Goto(r, "fit")
              /\ UNCHANGED failed
         ELSE Raise(r, "encode")
    /\ UNCHANGED <<closure_vars, local_vars, proc_vars, cc_vars>>



\* fit on the output of the normalizer, whose length can exceed the
\* number of submitted comments
Fit_OnCleaned(r) ==
    /\ pc[r] = "fit"
    /\ Enter(r, "fit")
    /\ \E ok \in BOOLEAN :
         IF ok
         THEN /\ \E t \in [1..Len(clean_comments(comments[r])) -> TopicIds] :
                   /\ topics' = [topics EXCEPT ![r] = t]
                   /\ topic_model' = [topic_model EXCEPT ![r] =
                          [topics_ |-> t, representation |-> "c-tf-idf", docs |-> comments[r]]]
              /\ Yield(r, send_progress_update("Processing topic information...", 80))
              /\ Goto(r, "enhance")
              /\ UNCHANGED failed
         ELSE /\ Raise(r, "fit")
              /\ UNCHANGED <<topics, topic_model>>
    /\ UNCHANGED <<closure_vars, model_used, enh_comments, updated_model,
                   topics_list, summary, proc_vars, cc_vars>>
\* fit one process-wide BERTopic instance that every request refers to
Fit_SharedModel(r) ==
    /\ pc[r] = "fit"
    /\ Enter(r, "fit")
    /\ \E ok \in BOOLEAN :
         IF ok
         THEN /\ \E t \in [1..Len(comments[r]) -> TopicIds] :
                   /\ topics' = [topics EXCEPT ![r] = t]
                   /\ topic_model' = [q \in Requests |->
                          [topics_ |-> t, representation |-> "c-tf-idf", docs |-> comments[r]]]
              /\ Yield(r, send_progress_update("Processing topic information...", 80))
              /\ Goto(r, "enhance")
              /\ UNCHANGED failed
         ELSE /\ Raise(r, "fit")
              /\ UNCHANGED <<topics, topic_model>>
    /\ UNCHANGED <<closure_vars, model_used, enh_comments, updated_model,
                   topics_list, summary, proc_vars, cc_vars>>
\* topic_model.fit_transform(comments, embeddings), then yield
\* 'Processing topic information...'
Fit(r) ==
    /\ pc[r] = "fit"
    /\ Enter(r, "fit")
    /\ \E ok \in BOOLEAN :
         IF ok
         THEN /\ \E t \in [1..Len(comments[r]) -> TopicIds] :
                   /\ topics' = [topics EXCEPT ![r] = t]
                   /\ topic_model' = [topic_model EXCEPT ![r] =
                          [topics_ |-> t, representation |-> "c-tf-idf",
                           docs |-> comments[r]]]
              /\ Yield(r, send_progress_update("Processing topic information...", 80))
              /\ Goto(r, "enhance")
              /\ UNCHANGED failed
         ELSE /\ Raise(r, "fit")
              /\ UNCHANGED <<topics, topic_model>>
    /\ UNCHANGED <<closure_vars, model_used, enh_comments, updated_model,
                   topics_list, summary, proc_vars, cc_vars>>

(***************************************************************************)
(* The Representation Enhancer.                                            *)
(***************************************************************************)
\* model_used = "None"; the branch on the credential, the yield of the
\* branch, and the call of the Enhancer with (topic_model, comments)
ChooseTier(r) ==
    /\ pc[r] = "enhance"
    /\ model_used' = [model_used EXCEPT ![r] = NAME_NONE]
    /\ enh_comments' = [enh_comments EXCEPT ![r] = comments[r]]
    /\ IF key_truthy(openai_api_key[r])
       THEN /\ Yield(r, send_progress_update("Enhancing with OpenAI...", 85))
            /\ Enter(r, "remote")
            /\ Goto(r, "remote:clean")
       ELSE /\ Yield(r, send_progress_update("Enhancing with Hugging Face...", 85))
            /\ Enter(r, "local")
            /\ Goto(r, "local:copy")
    /\ UNCHANGED <<closure_vars, topic_model, topics, updated_model, topics_list,
                   summary, failed, proc_vars, cc_vars>>

\* `except Exception as e:` of update_topics_with_openai:
\* return update_topics_with_huggingface(topic_model, comments)
RemoteFallback_Reraise(r, stage) ==
    /\ Raise(r, stage)
    /\ UNCHANGED attempted
RemoteFallback(r, stage) ==
    /\ Fail(r, stage)
    /\ Enter(r, "local")
    /\ Goto(r, "local:copy")
    /\ UNCHANGED events

\* `except Exception as e:` of update_topics_with_huggingface:
\* return topic_model, "Basic BERTopic (no enhancement)"
Baseline_Reraise(r, stage) ==
    /\ Raise(r, stage)
    /\ UNCHANGED <<attempted, model_used, topic_model>>

Baseline_WrongName(r, stage) ==
    /\ Fail(r, stage)
    /\ Enter(r, "baseline")
    /\ model_used' = [model_used EXCEPT ![r] = NAME_HF]
    /\ Goto(r, "finalize")
    /\ UNCHANGED <<events, topic_model>>
Baseline(r, stage) ==
    /\ Fail(r, stage)
    /\ Enter(r, "baseline")
    /\ model_used' = [model_used EXCEPT ![r] = NAME_BASIC]
    /\ Goto(r, "finalize")
    /\ UNCHANGED <<events, topic_model>>

\* comments = clean_comments(comments)
OpenAI_Clean(r) ==
    /\ pc[r] = "remote:clean"
    /\ \E ok \in BOOLEAN :
         IF ok
         THEN /\ enh_comments' = [enh_comments EXCEPT ![r] =
                     [k \in 1..Len(clean_comments(@)) |-> StrVal(clean_comments(@)[k])]]
              /\ Goto(r, "remote:copy")
              /\ UNCHANGED <<events, attempted, failed>>
         ELSE /\ RemoteFallback(r, "remote:clean")
              /\ UNCHANGED enh_comments
    /\ UNCHANGED <<closure_vars, topic_model, topics, model_used, updated_model,
                   topics_list, summary, proc_vars, cc_vars>>

\* updated_model = deepcopy(topic_model)
OpenAI_Copy(r) ==
    /\ pc[r] = "remote:copy"
    /\ \E ok \in BOOLEAN :
         IF ok
         THEN /\ updated_model' = [updated_model EXCEPT ![r] = topic_model[r]]
              /\ Goto(r, "remote:init")
              /\ UNCHANGED <<events, attempted, failed>>
         ELSE /\ RemoteFallback(r, "remote:copy")
              /\ UNCHANGED updated_model
    /\ UNCHANGED <<closure_vars, topic_model, topics, model_used, enh_comments,
                   topics_list, summary, proc_vars, cc_vars>>

\* StableOpenAIRepresentation(api_key=openai_api_key, ...): openai.api_key = api_key
OpenAI_Init(r) ==
    /\ pc[r] = "remote:init"
    /\ openai_module_api_key' = openai_api_key[r]
    /\ Goto(r, "remote:update")
    /\ UNCHANGED <<events, closure_vars, local_vars, attempted, failed,
                   remote_calls, model_cache, embedder_loads, cc_vars>>

RemoteCall(r, kind) == [req |-> r, kind |-> kind, key |-> openai_module_api_key]
CallOutcomes == {"ok", "failed before the call", "failed in the call"}

\* updated_model.update_topics(comments, representation_model=openai_rep);
\* return updated_model, "OpenAI"
OpenAI_Update(r) ==
    /\ pc[r] = "remote:update"
    /\ \E outcome \in CallOutcomes :
         /\ remote_calls' = IF outcome = "failed before the call" THEN remote_calls
                            ELSE remote_calls \cup {RemoteCall(r, "label")}
         /\ IF outcome = "ok"
            THEN /\ updated_model' = [updated_model EXCEPT ![r] =
                        [@ EXCEPT !.representation = "openai", !.docs = enh_comments[r]]]
                 /\ topic_model' = [topic_model EXCEPT ![r] = updated_model'[r]]
                 /\ model_used' = [model_used EXCEPT ![r] = NAME_OPENAI]
                 /\ Goto(r, "finalize")
                 /\ UNCHANGED <<events, attempted, failed>>
            ELSE /\ updated_model' = [updated_model EXCEPT ![r] =
                        [@ EXCEPT !.representation = "partial", !.docs = enh_comments[r]]]
                 /\ RemoteFallback(r, "remote:update")
                 /\ UNCHANGED <<topic_model, model_used>>
    /\ UNCHANGED <<closure_vars, topics, enh_comments, topics_list, summary,
                   openai_module_api_key, model_cache, embedder_loads, cc_vars>>

\* update_topics_with_huggingface: updated_model = deepcopy(topic_model)
HF_Copy(r) ==
    /\ pc[r] = "local:copy"
    /\ \E ok \in BOOLEAN :
         IF ok
         THEN /\ updated_model' = [updated_model EXCEPT ![r] = topic_model[r]]
              /\ Goto(r, "local:update")
              /\ UNCHANGED <<events, attempted, failed, model_used, topic_model>>
         ELSE /\ Baseline(r, "local:copy")
              /\ UNCHANGED updated_model
    /\ UNCHANGED <<closure_vars, topics, enh_comments, topics_list, summary,
                   proc_vars, cc_vars>>


\* update the caller's model itself (updated_model = topic_model, no copy)
HF_Update_InPlace(r) ==
    /\ pc[r] = "local:update"
    /\ \E ok \in BOOLEAN :
         IF ok
         THEN /\ updated_model' = [updated_model EXCEPT ![r] =
                     [@ EXCEPT !.representation = "keybert", !.docs = enh_comments[r]]]
              /\ topic_model' = [topic_model EXCEPT ![r] = updated_model'[r]]
              /\ model_used' = [model_used EXCEPT ![r] = NAME_HF]
              /\ Goto(r, "finalize")
              /\ UNCHANGED <<events, attempted, failed>>
         ELSE /\ updated_model' = [updated_model EXCEPT ![r] =
                     [@ EXCEPT !.representation = "partial", !.docs = enh_comments[r]]]
              /\ topic_model' = [topic_model EXCEPT ![r] = updated_model'[r]]
              /\ Fail(r, "local:update")
              /\ Enter(r, "baseline")
              /\ model_used' = [model_used EXCEPT ![r] = NAME_BASIC]
              /\ Goto(r, "finalize")
              /\ UNCHANGED events
    /\ UNCHANGED <<closure_vars, topics, enh_comments, topics_list, summary,
                   proc_vars, cc_vars>>
\* updated_model.update_topics(comments, representation_model=KeyBERTInspired());
\* return updated_model, "Hugging Face (KeyBERT)"
HF_Update(r) ==
    /\ pc[r] = "local:update"
    /\ \E ok \in BOOLEAN :
         IF ok
         THEN /\ updated_model' = [updated_model EXCEPT ![r] =
                     [@ EXCEPT !.representation = "keybert", !.docs = enh_comments[r]]]
              /\ topic_model' = [topic_model EXCEPT ![r] = updated_model'[r]]
              /\ model_used' = [model_used EXCEPT ![r] = NAME_HF]
              /\ Goto(r, "finalize")
              /\ UNCHANGED <<events, attempted, failed>>
         ELSE /\ updated_model' = [updated_model EXCEPT ![r] =
                     [@ EXCEPT !.representation = "partial", !.docs = enh_comments[r]]]
              /\ Baseline(r, "local:update")
    /\ UNCHANGED <<closure_vars, topics, enh_comments, topics_list, summary,
                   proc_vars, cc_vars>>

(***************************************************************************)
(* generate_analysis: topic statistics, summary and result.                *)
(***************************************************************************)

\* yield 'Finalizing results...' with the percent of an earlier stage
Finalize_Typo(r) ==
    /\ pc[r] = "finalize"
    /\ Yield(r, send_progress_update("Finalizing results...", 80))
    /\ Goto(r, "stats")
    /\ UNCHANGED <<closure_vars, local_vars, attempted, failed, proc_vars, cc_vars>>
\* yield 'Finalizing results...'
Finalize(r) ==
    /\ pc[r] = "finalize"
    /\ Yield(r, send_progress_update("Finalizing results...", 90))
    /\ Goto(r, "stats")
    /\ UNCHANGED <<closure_vars, local_vars, attempted, failed, proc_vars, cc_vars>>

\* (topics_array == topic_id).sum()
CountOf(topics_array, topic_id) ==
    Cardinality({k \in 1..Len(topics_array) : topics_array[k] = topic_id})

\* round(count / len(topics_array) * 100, 2), in hundredths of a percent
\* (rounded to nearest; a tie needs len(topics_array) >= 32)
Percentage(topics_array, topic_id) ==
    ((2 * 10000 * CountOf(topics_array, topic_id)) + Len(topics_array))
        \div (2 * Len(topics_array))

\* topic_model.get_topic_info(): one row per topic id the model holds
IdSeq == [k \in 1..(MaxTopic + 2) |-> k - 2]
get_topic_info(tm) ==
    LET present(id) == CountOf(tm.topics_, id) > 0
        ids == SelectSeq(IdSeq, present)
    IN  [k \in 1..Len(ids) |->
            [Topic |-> ids[k], Count |-> CountOf(tm.topics_, ids[k]),
             Representation |-> <<tm.representation>>]]

\* the loop `for idx, row in topic_info.iterrows()`
RECURSIVE build_topics_list(_, _)
build_topics_list(rows, topics_array) ==
    IF rows = <<>> THEN <<>>
    ELSE LET row == Head(rows)
             topic_id == row.Topic
             words == SubSeq(row.Representation, 1, Min(5, Len(row.Representation)))
             entry == [id |-> topic_id,
                       label |-> IF words # <<>> THEN words[1] ELSE "Topic",
                       words |-> words,
                       percentage |-> Percentage(topics_array, topic_id)]
         IN  IF is_outlier(topic_id)
             THEN build_topics_list(Tail(rows), topics_array)
             ELSE <<entry>> \o build_topics_list(Tail(rows), topics_array)

\* topics_array, its validation, get_topic_info and the loop building
\* topics_list; then `summary = None` and the yield of the branch on the
\* credential
Stats(r) ==
    /\ pc[r] = "stats"
    /\ Enter(r, "stats")
    /\ \E ok \in BOOLEAN :
         IF ok
         THEN /\ topics_list' = [topics_list EXCEPT ![r] =
                     build_topics_list(get_topic_info(topic_model[r]),
                                       topic_model[r].topics_)]
              /\ summary' = [summary EXCEPT ![r] = PyNone]
              /\ IF key_truthy(openai_api_key[r])
                 THEN /\ Yield(r, send_progress_update("Generating summary...", 95))
                      /\ Goto(r, "summary")
                 ELSE /\ Yield(r, send_progress_update("Complete", 100))
                      /\ Goto(r, "result")
              /\ UNCHANGED failed
         ELSE /\ Raise(r, "stats")
              /\ UNCHANGED <<topics_list, summary>>
    /\ UNCHANGED <<closure_vars, topic_model, topics, model_used, enh_comments,
                   updated_model, proc_vars, cc_vars>>

\* `except Exception as e:` of generate_overall_summary: return None; the
\* generator goes on to yield 'Complete'
SummaryFailure_Reraise(r) ==
    /\ Raise(r, "summary")
    /\ UNCHANGED summary

SummaryFailure_ErrorText(r) ==
    /\ Fail(r, "summary")
    /\ summary' = [summary EXCEPT ![r] = "Error generating summary"]
    /\ Yield(r, send_progress_update("Complete", 100))
    /\ Goto(r, "result")
SummaryFailure(r) ==
    /\ Fail(r, "summary")
    /\ summary' = [summary EXCEPT ![r] = PyNone]
    /\ Yield(r, send_progress_update("Complete", 100))
    /\ Goto(r, "result")

\* summary = generate_overall_summary(topics_list, openai_api_key, post_title),
\* then yield 'Complete'
Summary(r) ==
    /\ pc[r] = "summary"
    /\ Enter(r, "summary")
    /\ IF ~key_truthy(openai_api_key[r])
       THEN /\ summary' = [summary EXCEPT ![r] = PyNone]
            /\ Yield(r, send_progress_update("Complete", 100))
            /\ Goto(r, "result")
            /\ UNCHANGED <<remote_calls, failed>>
       ELSE \E outcome \in CallOutcomes :
              /\ remote_calls' = IF outcome = "failed before the call" THEN remote_calls
                                 ELSE remote_calls \cup {RemoteCall(r, "summary")}
              /\ IF outcome = "ok"
                 THEN /\ summary' = [summary EXCEPT ![r] = "summary text"]
                      /\ Yield(r, send_progress_update("Complete", 100))
                      /\ Goto(r, "result")
                      /\ UNCHANGED failed
                 ELSE SummaryFailure(r)
    /\ UNCHANGED <<closure_vars, topic_model, topics, model_used, enh_comments,
                   updated_model, topics_list, openai_module_api_key, model_cache,
                   embedder_loads, cc_vars>>


\* report the number of topics where the number of comments belongs
Result_CountsTopics(r) ==
    /\ pc[r] = "result"
    /\ Yield(r, [status |-> "complete",
                 topics |-> topics_list[r],
                 model_used |-> model_used[r],
                 summary |-> summary[r],
                 total_comments |-> Len(topics_list[r])])
    /\ Goto(r, "done")
    /\ UNCHANGED <<closure_vars, local_vars, attempted, failed, proc_vars, cc_vars>>
\* yield json.dumps(result): the generator ends after it
Result(r) ==
    /\ pc[r] = "result"
    /\ Yield(r, [status |-> "complete",
                 topics |-> topics_list[r],
                 model_used |-> model_used[r],
                 summary |-> summary[r],
                 total_comments |-> Len(comments[r])])
    /\ Goto(r, "done")
    /\ UNCHANGED <<closure_vars, local_vars, attempted, failed, proc_vars, cc_vars>>

(***************************************************************************)
(* clean_comments, step by step.                                           *)
(***************************************************************************)
CC_Init ==
    /\ cc_pc = "loop"
    /\ cc_comments \in CleanInputs
    /\ cc_i = 1
    /\ cc_cleaned = <<>>
    /\ cc_again = <<>>

\* the body of `for i, c in enumerate(comments)`
CC_Iterate ==
    /\ cc_pc = "loop"
    /\ cc_i <= Len(cc_comments)
    /\ cc_cleaned' = cc_cleaned \o CleanOne(cc_comments[cc_i])
    /\ cc_i' = cc_i + 1
    /\ UNCHANGED <<cc_pc, cc_comments, cc_again, req_vars, proc_vars>>

\* one turn of `while len(cleaned) < 3`
CC_AddPlaceholder ==
    /\ cc_pc = "loop"
    /\ cc_i > Len(cc_comments)
    /\ NeedsPlaceholder(cc_cleaned)
    /\ cc_cleaned' = Append(cc_cleaned, Placeholder(Len(cc_cleaned)))
    /\ UNCHANGED <<cc_pc, cc_comments, cc_i, cc_again, req_vars, proc_vars>>

\* `return cleaned`
CC_Return ==
    /\ cc_pc = "loop"
    /\ cc_i > Len(cc_comments)
    /\ ~NeedsPlaceholder(cc_cleaned)
    /\ cc_pc' = "returned"
    /\ UNCHANGED <<cc_comments, cc_i, cc_cleaned, cc_again, req_vars, proc_vars>>

\* each returned document through normalize_text, pad_short_text and
\* truncate_long_text once more
CC_Renormalize ==
    /\ cc_pc = "returned"
    /\ cc_again' = [k \in 1..Len(cc_cleaned) |->
                        NormalizeDoc(normalize_text(StrVal(cc_cleaned[k])))]
    /\ cc_pc' = "renormalized"
    /\ UNCHANGED <<cc_comments, cc_i, cc_cleaned, req_vars, proc_vars>>

(***************************************************************************)
(* Specifications.                                                         *)
(***************************************************************************)
Step(r) ==
    \/ analyze_reddit_post(r)
    \/ GenStart(r)
    \/ CreateModel(r)
    \/ Encode(r)
    \/ Fit(r)
    \/ ChooseTier(r)
    \/ OpenAI_Clean(r)
    \/ OpenAI_Copy(r)
    \/ OpenAI_Init(r)
    \/ OpenAI_Update(r)
    \/ HF_Copy(r)
    \/ HF_Update(r)
    \/ Finalize(r)
    \/ Stats(r)
    \/ Summary(r)
    \/ Result(r)

\* one request through the pipeline
Init == P_Init /\ CC_Off
Next == \E r \in {1} : Step(r)
Spec == Init /\ [][Next]_vars

\* two requests served by one process, their generators' steps interleaved
\* in every order: client 1 posts one comment, with a key or without,
\* client 2 posts two comments without a key
ConcBodies(r) ==
    { b \in [kind : {"dict"}, given : {"list"},
             comments : IF r = 1 THEN { <<StrVal(<<"a", "b">>)>> }
                        ELSE { <<StrVal(<<"a", "b">>), StrVal(<<" ">>)>> },
             openai_api_key : IF r = 1 THEN {PyNone, "sk-A"} ELSE {PyNone},
             post_title : {PyNone}] : TRUE }

Arrive(r) == analyze_reddit_post(r) /\ request_json'[r] \in ConcBodies(r)

StepConc(r) ==
    \/ Arrive(r)
    \/ GenStart(r)
    \/ CreateModel(r)
    \/ Encode(r)
    \/ Fit(r)
    \/ ChooseTier(r)
    \/ OpenAI_Clean(r)
    \/ OpenAI_Copy(r)
    \/ OpenAI_Init(r)
    \/ OpenAI_Update(r)
    \/ HF_Copy(r)
    \/ HF_Update(r)
    \/ Finalize(r)
    \/ Stats(r)
    \/ Summary(r)
    \/ Result(r)

NextConc == \E r \in Requests : StepConc(r)
SpecConc == Init /\ [][NextConc]_vars

\* two requests served by one process, each with its own key: the clients
\* post different one-comment lists
CredBodies(r) ==
    { b \in [kind : {"dict"}, given : {"list"},
             comments : IF r = 1 THEN { <<StrVal(<<"a", "b">>)>> }
                        ELSE { <<StrVal(<<" ">>)>> },
             openai_api_key : IF r = 1 THEN {"sk-A"} ELSE {"sk-B"},
             post_title : {PyNone}] : TRUE }

ArriveWithKey(r) == analyze_reddit_post(r) /\ request_json'[r] \in CredBodies(r)

StepCred(r) ==
    \/ ArriveWithKey(r)
    \/ GenStart(r)
    \/ CreateModel(r)
    \/ Encode(r)
    \/ Fit(r)
    \/ ChooseTier(r)
    \/ OpenAI_Clean(r)
    \/ OpenAI_Copy(r)
    \/ OpenAI_Init(r)
    \/ OpenAI_Update(r)
    \/ HF_Copy(r)
    \/ HF_Update(r)
    \/ Finalize(r)
    \/ Stats(r)
    \/ Summary(r)
    \/ Result(r)

NextCred == \E r \in Requests : StepCred(r)
SpecCred == Init /\ [][NextCred]_vars

\* a stand-alone call of clean_comments on every input of CleanInputs
InitClean == P_Init /\ CC_Init
NextClean == CC_Iterate \/ CC_AddPlaceholder \/ CC_Return \/ CC_Renormalize
SpecClean == InitClean /\ [][NextClean]_vars

(***************************************************************************)
(* Properties.                                                             *)
(***************************************************************************)
Last(seq) == seq[Len(seq)]
Terminals(r) == {k \in 1..Len(events[r]) : IsTerminal(events[r][k])}
Statuses(r) == {events[r][k].status : k \in 1..Len(events[r])}
NoCredential(r) == openai_api_key[r] \in {PyNone, ""}
RemoteFailed(r) == failed[r] \cap RemoteStages # {}
GeneratorRunning(r) == pc[r] \notin {"idle", "responded", "done"}
\* the model fit_transform left in topic_model
FittedModel(r) ==
    [topics_ |-> topics[r], representation |-> "c-tf-idf", docs |-> comments[r]]

\* C1: every started stream holds at most one terminal event (complete or
\* error), nothing is yielded after it, a generator that has not finished can
\* always take its next step, and a finished generator has yielded exactly one
\* terminal event.
C1_OneTerminalEvent ==
    \A r \in Requests :
        /\ Cardinality(Terminals(r)) <= 1
        /\ \A k \in Terminals(r) : k = Len(events[r])
        /\ GeneratorRunning(r) => ENABLED Step(r)
        /\ pc[r] = "done" => Cardinality(Terminals(r)) = 1

C1_Witness ==
    /\ pc[1] = "done"
    /\ failed[1] = {"remote:update", "local:update", "summary"}
    /\ Len(events[1]) = 9
    /\ Last(events[1]).status = "complete"

C3_EmptyCommentsRejected ==
    \A r \in Requests :
        (request_json[r].kind = "dict"
            /\ (request_json[r].given # "list" \/ request_json[r].comments = <<>>)) =>
                /\ pc[r] = "responded"
                /\ response[r] = ErrorResponse(400, "No comments to analyze")
                /\ events[r] = <<>>
                /\ attempted[r] = <<>>
                /\ topic_model[r] = NoModel

C3_Witness ==
    /\ pc[1] = "responded"
    /\ request_json[1].kind = "dict"
    /\ request_json[1].given = "list"
    /\ request_json[1].comments = <<>>
    /\ response[1].http = 400

\* C4: a request without a credential never enters the remote-LLM tier or
\* the summary request and makes no remote call; when its modeling stages
\* succeed its finished stream holds exactly one terminal event, a complete
\* event without summary, whose model_used is the local tier's name when the
\* local tier succeeded.
C4_NoCredentialStaysLocal ==
    \A r \in Requests :
        NoCredential(r) =>
            /\ \A k \in 1..Len(attempted[r]) : attempted[r][k] \notin {"remote", "summary"}
            /\ \A c \in remote_calls : c.req # r
            /\ (pc[r] = "done" /\ failed[r] \cap ModelingStages = {}) =>
                   /\ Cardinality(Terminals(r)) = 1
                   /\ Last(events[r]).status = "complete"
                   /\ Last(events[r]).summary = PyNone
                   /\ failed[r] \cap LocalStages = {} =>
                          Last(events[r]).model_used = NAME_HF

C4_Witness ==
    /\ pc[1] = "done"
    /\ openai_api_key[1] = ""
    /\ Len(comments[1]) = 2
    /\ failed[1] = {}
    /\ Last(events[1]).status = "complete"
    /\ Last(events[1]).model_used = NAME_HF
    /\ Last(events[1]).summary = PyNone

\* C5: once a modeling stage (create, encode, fit, stats) has failed the
\* generator is finished, its last event is the error event with a message
\* and a trace, and it has yielded no complete event; a stream in which only
\* enhancement tiers or the summary failed holds no error event.
C5_OnlyModelingFailuresAreFatal ==
    \A r \in Requests :
        /\ failed[r] \cap ModelingStages # {} =>
               /\ pc[r] = "done"
               /\ Last(events[r]).status = "error"
               /\ Last(events[r]).error \in ModelingStages
               /\ Last(events[r]).traceback = "Traceback"
               /\ "complete" \notin Statuses(r)
        /\ failed[r] \cap ModelingStages = {} => "error" \notin Statuses(r)

C5_Witness ==
    /\ pc[1] = "done"
    /\ failed[1] = {"remote:clean", "local:update", "stats"}
    /\ Last(events[1]).status = "error"

\* C6: the Enhancer never raises: from any position inside it the request
\* stays inside it or returns to the generator without yielding anything,
\* and on return model_used is one of the three strategy names, the baseline
\* name going with the unmodified fitted model.
EnhancerPcs ==
    {"remote:clean", "remote:copy", "remote:init", "remote:update",
     "local:copy", "local:update"}
C6_EnhancerNeverRaises ==
    /\ [][\A r \in Requests :
            pc[r] \in EnhancerPcs =>
                /\ pc'[r] \in EnhancerPcs \cup {"finalize"}
                /\ events'[r] = events[r]]_vars
    /\ [](\A r \in Requests :
            pc[r] = "finalize" =>
                /\ model_used[r] \in {NAME_OPENAI, NAME_HF, NAME_BASIC}
                /\ topic_model[r].topics_ = topics[r]
                /\ model_used[r] = NAME_BASIC => topic_model[r] = FittedModel(r))

C6_Witness ==
    /\ pc[1] = "finalize"
    /\ failed[1] = {"remote:update", "local:update"}
    /\ model_used[1] = NAME_BASIC
    /\ topic_model[1] = FittedModel(1)
    /\ updated_model[1] # topic_model[1]

\* C7: no entry of the topic list of a complete event has id -1.
C7_NoOutlierInResult ==
    \A r \in Requests :
        \A k \in 1..Len(events[r]) :
            events[r][k].status = "complete" =>
                \A j \in 1..Len(events[r][k].topics) : events[r][k].topics[j].id # -1

C7_Witness ==
    /\ Len(events[1]) > 0
    /\ Last(events[1]).status = "complete"
    /\ \E k \in 1..Len(topic_model[1].topics_) : topic_model[1].topics_[k] = -1
    /\ Len(Last(events[1]).topics) = 1

\* C8: the corpus clean_comments returns has at least 3 documents, for every
\* input list.
C8_AtLeastThreeDocuments ==
    cc_pc \in {"returned", "renormalized"} => Len(cc_cleaned) >= 3

C8_Witness ==
    /\ cc_pc = "returned"
    /\ cc_comments = <<NoneVal, StrVal(<<>>), StrVal(<<" ">>)>>
    /\ Len(cc_cleaned) = 3

\* C9: every document of the corpus clean_comments returns has a length
\* within [MIN_LENGTH, MAX_LENGTH].
C9_LengthWithinBounds ==
    cc_pc = "returned" =>
        \A k \in 1..Len(cc_cleaned) :
            /\ Len(cc_cleaned[k]) >= MIN_LENGTH
            /\ Len(cc_cleaned[k]) <= MAX_LENGTH

\* C10: normalize_text, pad_short_text and truncate_long_text applied once
\* more to a returned document of valid length give that document back.
C10_Idempotent ==
    cc_pc = "renormalized" =>
        \A k \in 1..Len(cc_cleaned) :
            (Len(cc_cleaned[k]) >= MIN_LENGTH /\ Len(cc_cleaned[k]) <= MAX_LENGTH) =>
                cc_again[k] = cc_cleaned[k]

\* The stage of the progress stream a message belongs to:
\* 1 modeling, 2 clustering, 3 enhancing, 4 summarizing, 5 complete.
StageOf(ev) ==
    CASE ev.status = "complete" -> 5
      [] ev.status = "error" -> 6
      [] ev.message \in {"Loading models...", "Embedding comments..."} -> 1
      [] ev.message \in {"Analyzing topics...", "Processing topic information..."} -> 2
      [] ev.message \in {"Enhancing with OpenAI...", "Enhancing with Hugging Face...",
                         "Finalizing results..."} -> 3
      [] ev.message = "Generating summary..." -> 4
      [] ev.message = "Complete" -> 5
      [] OTHER -> 0

\* C11: within one stream the percent of a progress event is never below
\* the percent of an earlier one, and no event of a stage follows an event
\* of a later stage (modeling, clustering, enhancing, summarizing, complete).
C11_ProgressIsMonotonic ==
    \A r \in Requests :
        \A j, k \in 1..Len(events[r]) :
            j < k =>
                /\ StageOf(events[r][j]) >= 1
                /\ StageOf(events[r][j]) <= StageOf(events[r][k])
                /\ (events[r][j].status = "progress" /\ events[r][k].status = "progress") =>
                       events[r][j].progress <= events[r][k].progress

C11_Witness ==
    /\ pc[1] = "done"
    /\ failed[1] = {}
    /\ model_used[1] = NAME_OPENAI
    /\ Len(events[1]) = 9
    /\ events[1][7].progress = 95
    /\ events[1][9].status = "complete"

\* C12: once a request's stream has ended (a 'complete' or an 'error' event
\* was yielded), the process-wide state that outlives the request (the
\* openai module's api_key attribute, the model cache) does not hold the
\* key that request supplied.
C12_CredentialNotRetained ==
    \A r \in Requests :
        (pc[r] = "done" /\ openai_api_key[r] \notin {PyNone, ""}) =>
            /\ openai_module_api_key # openai_api_key[r]
            /\ \A k \in DOMAIN model_cache : model_cache[k] # openai_api_key[r]

\* the Topic Model state of request r: the instance, its assignments, the
\* Enhancer's copy and corpus, and the statistics read from the instance
TopicState(r) ==
    <<topic_model[r], topics[r], updated_model[r], enh_comments[r],
      topics_list[r], model_used[r]>>

\* everything in the Topic Model state of r is derived from r's own corpus
FromOwnCorpus(r) ==
    LET own == {<<>>, comments[r],
                [k \in 1..Len(clean_comments(comments[r])) |->
                     StrVal(clean_comments(comments[r])[k])]}
    IN  /\ enh_comments[r] \in own
        /\ topic_model[r].docs \in own
        /\ updated_model[r].docs \in own
        /\ topics[r] # <<>> => Len(topics[r]) = Len(comments[r])
        /\ topic_model[r].topics_ \in {<<>>, topics[r]}
        /\ updated_model[r].topics_ \in {<<>>, topics[r]}
        /\ \A k \in 1..Len(topics_list[r]) :
               \E d \in 1..Len(topics[r]) : topics[r][d] = topics_list[r][k].id

\* C13: with two requests of different corpora interleaved in every order,
\* a step of one request leaves the Topic Model state of the other request
\* as it was, and each request's assignments, copies and statistics are
\* derived from its own corpus.
C13_NoCrossContamination ==
    /\ [][\A r \in Requests : pc'[r] = pc[r] => TopicState(r)' = TopicState(r)]_vars
    /\ [](\A r \in Requests : FromOwnCorpus(r))

C13_Witness ==
    /\ pc[1] = "done" /\ pc[2] = "done"
    /\ comments[1] # comments[2]
    /\ model_used[1] = NAME_OPENAI /\ model_used[2] = NAME_HF
    /\ topic_model[1].docs # topic_model[2].docs
    /\ Last(events[1]).status = "complete" /\ Last(events[2]).status = "complete"
    /\ Len(Last(events[2]).topics) = 1

\* C14: generate_overall_summary never raises.  Once it was called the
\* stream carries no error block and ends with 'complete'; when it failed
\* (building the prompt or in the remote completion) the summary is None;
\* a request without a credential makes no remote call for a summary and
\* its 'complete' block carries the summary None.
C14_SummaryNeverRaises ==
    \A r \in Requests :
        /\ (\E k \in 1..Len(attempted[r]) : attempted[r][k] = "summary") =>
               /\ pc[r] \in {"result", "done"}
               /\ \A k \in 1..Len(events[r]) : events[r][k].status # "error"
               /\ pc[r] = "done" => Last(events[r]).status = "complete"
        /\ "summary" \in failed[r] =>
               /\ summary[r] = PyNone
               /\ pc[r] = "done" => Last(events[r]).summary = PyNone
        /\ openai_api_key[r] \in {PyNone, ""} =>
               /\ \A c \in remote_calls : ~(c.req = r /\ c.kind = "summary")
               /\ summary[r] = PyNone
               /\ (pc[r] = "done" /\ Last(events[r]).status = "complete") =>
                      Last(events[r]).summary = PyNone

C14_Witness ==
    /\ pc[1] = "done"
    /\ failed[1] = {"summary"}
    /\ \E c \in remote_calls : c.req = 1 /\ c.kind = "summary" /\ c.key = "sk-A"
    /\ Last(events[1]).status = "complete"
    /\ Last(events[1]).summary = PyNone
    /\ Last(events[1]).model_used = NAME_OPENAI

\* the number of documents the model assigned to the returned topics
RECURSIVE SumOfCounts(_, _)
SumOfCounts(returned, assignment) ==
    IF returned = <<>> THEN 0
    ELSE Cardinality({d \in 1..Len(assignment) : assignment[d] = Head(returned).id})
         + SumOfCounts(Tail(returned), assignment)

\* C15: in a 'complete' block the document counts of the returned topics
\* add up to at most the reported number of comments, and to exactly that
\* number when the clustering assigned no document to the outlier topic;
\* the percentage of each returned topic is its count over that number.
C15_CountsWithinTotal ==
    \A r \in Requests :
        (pc[r] = "done" /\ Last(events[r]).status = "complete") =>
            LET e == Last(events[r])
                assignment == topic_model[r].topics_
                count(k) == Cardinality({d \in 1..Len(assignment) :
                                            assignment[d] = e.topics[k].id})
            IN  /\ SumOfCounts(e.topics, assignment) <= e.total_comments
                /\ (\A d \in 1..Len(assignment) : assignment[d] # -1) =>
                       SumOfCounts(e.topics, assignment) = e.total_comments
                /\ \A k \in 1..Len(e.topics) :
                       /\ count(k) >= 1
                       /\ 2 * e.topics[k].percentage * e.total_comments
                              <= 2 * 10000 * count(k) + e.total_comments
                       /\ 2 * e.topics[k].percentage * e.total_comments
                              >= 2 * 10000 * count(k) - e.total_comments

C15_Witness ==
    /\ pc[1] = "done"
    /\ Last(events[1]).status = "complete"
    /\ Last(events[1]).total_comments = 2
    /\ Len(Last(events[1]).topics) = 2
    /\ Last(events[1]).topics[1].percentage = 5000
    /\ Last(events[1]).topics[2].percentage = 5000
    /\ SumOfCounts(Last(events[1]).topics, topic_model[1].topics_) = 2

\* C16 as stated: every 'complete' block carries num_topics, num_comments,
\* topics, model_used, openai_enhanced and post_title, num_topics being the
\* number of entries of topics, num_comments the number of submitted
\* comments and model_used one of the four strategy names.
C16_PayloadFieldsAsStated ==
    \A r \in Requests : \A k \in 1..Len(events[r]) :
        events[r][k].status = "complete" =>
            /\ {"num_topics", "num_comments", "topics", "model_used",
                "openai_enhanced", "post_title"} \subseteq DOMAIN events[r][k]
            /\ events[r][k].num_topics = Len(events[r][k].topics)
            /\ events[r][k].num_comments = Len(request_json[r].comments)
            /\ events[r][k].model_used \in
                   {"OpenAI", "Hugging Face (KeyBERT)",
                    "Basic BERTopic (no enhancement)", "None"}

\* C16, amended: every 'complete' block carries exactly status, topics,
\* model_used, summary and total_comments; total_comments is the number of
\* submitted comments, summary is a string or None, model_used is the name
\* of one of the three tiers, and a topic carries id, label, words and
\* percentage.
C16_PayloadFields ==
    \A r \in Requests : \A k \in 1..Len(events[r]) :
        events[r][k].status = "complete" =>
            /\ DOMAIN events[r][k] =
                   {"status", "topics", "model_used", "summary", "total_comments"}
            /\ events[r][k].total_comments = Len(request_json[r].comments)
            /\ events[r][k].summary \in {PyNone, "summary text"}
            /\ events[r][k].model_used \in
                   {"OpenAI", "Hugging Face (KeyBERT)", "Basic BERTopic (no enhancement)"}
            /\ \A t \in 1..Len(events[r][k].topics) :
                   DOMAIN events[r][k].topics[t] = {"id", "label", "words", "percentage"}

C16_Witness ==
    /\ pc[1] = "done"
    /\ Len(request_json[1].comments) = 2
    /\ Last(events[1]).status = "complete"
    /\ Last(events[1]).total_comments = 2
    /\ Len(Last(events[1]).topics) = 1
    /\ Last(events[1]).summary = "summary text"
    /\ Last(events[1]).model_used = NAME_BASIC

\* the tiers of the Enhancer a request has entered, in order
TiersAttempted(r) ==
    LET isTier(s) == s \in {"remote", "local", "baseline"}
    IN  SelectSeq(attempted[r], isTier)

\* C17: the tiers are entered in the order remote, local, baseline, each
\* at most once; the remote tier only with a credential; the local tier
\* only without a credential or after a failure inside the remote tier; the
\* baseline only after a failure inside the local tier; and once the
\* Enhancer has returned, model_used and the representation of the model
\* it returned are those of the last tier entered.
C17_TierOrder ==
    \A r \in Requests :
        LET tiers == TiersAttempted(r)
            has(s) == \E k \in 1..Len(tiers) : tiers[k] = s
            credential == openai_api_key[r] \notin {PyNone, ""}
            remoteFailed == failed[r] \cap {"remote:clean", "remote:copy", "remote:update"} # {}
            localFailed == failed[r] \cap {"local:copy", "local:update"} # {}
            returned == tiers # <<>> /\ pc[r] \in {"finalize", "stats", "summary", "result", "done"}
        IN  /\ tiers \in {<<>>, <<"remote">>, <<"remote", "local">>,
                          <<"remote", "local", "baseline">>,
                          <<"local">>, <<"local", "baseline">>}
            /\ has("remote") => credential
            /\ has("remote") <=> (credential /\ tiers # <<>>)
            /\ has("local") => (~credential \/ remoteFailed)
            /\ (has("remote") /\ remoteFailed) => has("local")
            /\ has("baseline") <=> localFailed
            /\ returned =>
                   /\ Last(tiers) = "remote" =>
                          model_used[r] = "OpenAI" /\ topic_model[r].representation = "openai"
                   /\ Last(tiers) = "local" =>
                          /\ model_used[r] = "Hugging Face (KeyBERT)"
                          /\ topic_model[r].representation = "keybert"
                   /\ Last(tiers) = "baseline" =>
                          /\ model_used[r] = "Basic BERTopic (no enhancement)"
                          /\ topic_model[r].representation = "c-tf-idf"
                   /\ (pc[r] = "done" /\ Last(events[r]).status = "complete") =>
                          Last(events[r]).model_used = model_used[r]

C17_Witness ==
    /\ pc[1] = "done"
    /\ TiersAttempted(1) = <<"remote", "local", "baseline">>
    /\ failed[1] = {"remote:update", "local:update"}
    /\ Last(events[1]).status = "complete"
    /\ Last(events[1]).model_used = NAME_BASIC

\* C18: whenever the embedding or the fit has been invoked, the corpus it
\* was given has at least 3 documents and none of them is empty or made
\* of whitespace only.
C18_FitReceivesNormalizedCorpus ==
    \A r \in Requests :
        (\E k \in 1..Len(attempted[r]) : attempted[r][k] \in {"encode", "fit"}) =>
            /\ Len(comments[r]) >= 3
            /\ \A d \in 1..Len(comments[r]) : strip(comments[r][d].val) # <<>>
            /\ topic_model[r].representation # "unfitted" =>
                   Len(topic_model[r].topics_) >= 3

\* the model as fit_transform left it: what the caller passes to the Enhancer
ModelPassedIn(r) ==
    [topics_ |-> topics[r], representation |-> "c-tf-idf", docs |-> comments[r]]

\* C19: while the Enhancer runs, the model the caller passed in is as the
\* fit left it; each tier updates a copy that was taken from that model
\* (also the tier that runs after a failed one); and when the baseline is
\* returned after failures, it is the model as passed in.
C19_TiersWorkOnCopies ==
    \A r \in Requests :
        /\ pc[r] \in {"remote:clean", "remote:copy", "remote:init", "remote:update",
                      "local:copy", "local:update"} =>
               topic_model[r] = ModelPassedIn(r)
        /\ pc[r] \in {"remote:init", "remote:update", "local:update"} =>
               updated_model[r] = ModelPassedIn(r)
        /\ (pc[r] \in {"finalize", "stats", "summary", "result"}
              /\ model_used[r] = "Basic BERTopic (no enhancement)") =>
               topic_model[r] = ModelPassedIn(r)
        /\ (pc[r] \in {"finalize", "stats", "summary", "result"}
              /\ model_used[r] # "Basic BERTopic (no enhancement)") =>
               /\ topic_model[r] = updated_model[r]
               /\ topic_model[r].topics_ = topics[r]

C19_Witness ==
    /\ pc[1] = "finalize"
    /\ failed[1] = {"remote:update", "local:update"}
    /\ updated_model[1].representation = "partial"
    /\ topic_model[1] = ModelPassedIn(1)
    /\ model_used[1] = NAME_BASIC

\* C20: in one process the embedding model is loaded at most once, however
\* the requests interleave; a request that has created its models uses the
\* instance held in the cache.
C20_EmbedderLoadedOnce ==
    /\ embedder_loads <= 1
    /\ embedder_loads >= 1 => model_cache.embedding # PyNone

\* C21: when the local tier runs after a failure of the remote tier, the
\* corpus it is handed has as many documents as the corpus the caller
\* passed to the Enhancer, and its k-th document is the caller's k-th
\* document (as submitted or as normalized).
C21_FallbackCorpusAligned ==
    \A r \in Requests :
        (/\ pc[r] \in {"local:copy", "local:update"}
         /\ failed[r] \cap {"remote:clean", "remote:copy", "remote:update"} # {}) =>
            /\ Len(enh_comments[r]) = Len(comments[r])
            /\ Len(enh_comments[r]) = Len(topic_model[r].topics_)
            /\ \A k \in 1..Len(comments[r]) :
                   \/ enh_comments[r][k] = comments[r][k]
                   \/ CleanOne(comments[r][k]) = <<enh_comments[r][k].val>>

\* C22: with two requests that supply different credentials, every remote
\* completion made for a request (for a topic label or for the summary) is
\* made with the key that request supplied.
C22_OwnCredentialInRemoteCalls ==
    \A c \in remote_calls :
        /\ c.key = openai_api_key[c.req]
        /\ \A q \in Requests \ {c.req} :
               openai_api_key[q] \notin {PyNone, ""} => c.key # openai_api_key[q]

=============================================================================
